---- MODULE Spec2Model ----
(***************************************************************************)
(* Volumetric-fog upsampling: per-frame preparation of the compositing     *)
(* pass (crates/bevy_pbr/src/volumetric_fog/upsampling_pipeline.rs).       *)
(*                                                                         *)
(* Two specifications share the variables below:                           *)
(*   SpecExtract  the pure function extract_component over every camera    *)
(*                state of CameraSet;                                      *)
(*   Spec         the render-world frame loop: extraction, uniform upload, *)
(*                prepare_upsampling_bind_groups, prepare_upsampling_      *)
(*                pipeline, application of the deferred commands, draw.    *)
(***************************************************************************)
EXTENDS Integers, Sequences, FiniteSets, TLC

\* ------------------------------------------------------------------ bounds
NumViews == 2       \* camera views carrying VolumetricFog and Camera
MaxFrames == 2      \* frames rendered
MaxDim == 3         \* largest viewport width / height in pixels

Views == 1..NumViews
Dims == 0..MaxDim

\* ------------------------------------------------------------ Option<T>
None == [is_some |-> FALSE]
Some(x) == [is_some |-> TRUE, value |-> x]

\* ------------------------------------------------------------ camera state
\* What extract_component reads of a Camera: physical_viewport_rect(),
\* physical_viewport_size(), physical_target_size(), is_active, hdr.
SizeSet == {[x |-> w, y |-> h] : w \in Dims, h \in Dims}

\* The size of the target framebuffer when there is one: no smaller than any
\* viewport, and of a ratio no viewport has.
TargetSize == [x |-> MaxDim + 1, y |-> MaxDim]

CameraSet ==
    [ rect      : {None, Some("URect")},
      size      : {None} \cup {Some(s) : s \in SizeSet},
      target    : {None, Some(TargetSize)},
      is_active : BOOLEAN,
      hdr       : BOOLEAN ]

\* VolumetricFog settings of a view (an opaque, cloneable value).
FogSettingsSet == {"fog_a", "fog_b"}

\* --------------------------------------------------------- AspectRatio
\* f32 has a 24-bit significand: a positive value is m * 2^(-e) with
\* 2^23 <= m < 2^24, written [m |-> m, e |-> e].
F32Bits == 24

RECURSIVE Pow2(_)
Pow2(n) == IF n = 0 THEN 1 ELSE 2 * Pow2(n - 1)

\* The least e with x * 2^e >= y * 2^23, for 0 < x, y (pixel counts far below
\* 2^24, which `as f32` converts exactly).
RECURSIVE F32Exponent(_, _, _)
F32Exponent(x, y, e) ==
    IF x * Pow2(e) >= y * Pow2(F32Bits - 1) THEN e ELSE F32Exponent(x, y, e + 1)

\* width / height in f32: the quotient rounded to the nearest significand,
\* ties to even.
F32Div(x, y) ==
    LET e == F32Exponent(x, y, 0)
        q == (x * Pow2(e)) \div y
        r == (x * Pow2(e)) % y
        m == IF 2 * r > y \/ (2 * r = y /\ q % 2 = 1) THEN q + 1 ELSE q
    IN  IF m = Pow2(F32Bits) THEN [m |-> Pow2(F32Bits - 1), e |-> e - 1]
        ELSE [m |-> m, e |-> e]

\* AspectRatio::try_from_pixels(x, y): Err on a zero dimension, otherwise the
\* f32 ratio x as f32 / y as f32.
TryFromPixels(x, y) ==
    IF x = 0 \/ y = 0
    THEN [is_ok |-> FALSE]
    ELSE [is_ok |-> TRUE, ratio |-> F32Div(x, y)]

\* ------------------------------------------------- extract_component
NotRun == [kind |-> "NotRun"]
OutNone == [kind |-> "None"]
OutPanic == [kind |-> "Panic"]
OutSome(fog, uniform) == [kind |-> "Some", fog |-> fog, uniform |-> uniform]

\* struct UpsamplingUniforms { aspect }
UpsamplingUniforms(aspect) == [aspect |-> aspect]

\* Mutant: the guard passes when either dimension is non-zero.
SizeGuardEither(size) == size.x # 0 \/ size.y # 0

\* Mutant: the match guard forgets the height.
SizeGuardWidthOnly(size) == size.x # 0

\* The match guard `if size.x != 0 && size.y != 0`.
SizeGuard(size) == size.x # 0 /\ size.y # 0

\* Mutant: the aspect is taken from the target framebuffer size.
AspectSourceTarget(size, target_size) == target_size

\* The pixels handed to try_from_pixels: (size.x, size.y), the viewport size.
AspectSource(size, target_size) == size

\* Mutant: the fog settings returned are the default ones, not the view's.
CloneFogDefault(volumetric_fog) == "fog_a"

\* volumetric_fog.clone()
CloneFog(volumetric_fog) == volumetric_fog

\* The match arm pattern (Some(URect{..}), Some(size), Some(target_size), true, true).
ArmMatches(camera) ==
    /\ camera.rect.is_some
    /\ camera.size.is_some
    /\ camera.target.is_some
    /\ camera.is_active = TRUE
    /\ camera.hdr = TRUE

extract_component(volumetric_fog, camera) ==
    IF ArmMatches(camera) /\ SizeGuard(camera.size.value)
    THEN LET size == AspectSource(camera.size.value, camera.target.value)
             ar == TryFromPixels(size.x, size.y)
         IN  IF ar.is_ok
             THEN OutSome(CloneFog(volumetric_fog), UpsamplingUniforms(ar.ratio))
             ELSE OutPanic       \* .expect("Valid screen size values ...")
    ELSE OutNone

\* ------------------------------------------------------ frame inputs
\* Camera states a frame draws from: the spec's scenarios A (valid), B
\* (inactive) and C (zero width).
CameraA == [rect |-> Some("URect"), size |-> Some([x |-> MaxDim, y |-> 1]),
            target |-> Some(TargetSize), is_active |-> TRUE, hdr |-> TRUE]
CameraB == [CameraA EXCEPT !.is_active = FALSE]
CameraC == [CameraA EXCEPT !.size = Some([x |-> 0, y |-> 1])]
FrameCameras == {CameraA, CameraB, CameraC}

\* Texture-view handles the fog pass may hand to a view.
TextureHandles == {"tex_a", "tex_b"}

\* The VolumetricFog settings of view v in the main world.
ViewFog(v) == IF v % 2 = 1 THEN "fog_a" ELSE "fog_b"

\* ------------------------------------------------------------ state
VARIABLES
    exFog,              \* SpecExtract: the fog settings passed in
    exCamera,           \* SpecExtract: the camera passed in
    exResult,           \* SpecExtract: what extract_component returned
    exCalls,            \* SpecExtract: calls made on this input
    frame,              \* number of the current frame
    pc,                 \* stage of the frame
    camera,             \* view -> camera state this frame
    fogTexture,         \* view -> Option<VolumetricFogTexture>
    extracted,          \* view -> result of extract_component this frame
    uniforms,           \* ComponentUniforms<UpsamplingUniforms>
    bgPc,               \* prepare_upsampling_bind_groups: position
    bgSampler,          \* prepare_upsampling_bind_groups: local `sampler`
    bgVisited,          \* prepare_upsampling_bind_groups: views iterated
    bgCommands,         \* its deferred inserts: view -> Option<UpsamplingBindGroup>
    plVisited,          \* prepare_upsampling_pipeline: views iterated
    plCommands,         \* its deferred inserts: view -> Option<UpsamplingPipelineIds>
    specialized,        \* SpecializedRenderPipelines: cache of [key, id]
    queued,             \* PipelineCache: the pipelines queued for building, in order
    issued,             \* every [key, id] a specialize request has returned
    samplersCreated,    \* samplers created this frame
    bindGroupsCreated,  \* bind groups created this frame
    bindGroups,         \* view -> Option<UpsamplingBindGroup> component
    pipelineIds,        \* view -> Option<UpsamplingPipelineIds> component
    prevBindGroups      \* the UpsamplingBindGroup records of the frame before

exVars == <<exFog, exCamera, exResult, exCalls>>
frameVars == <<frame, pc, camera, fogTexture, extracted, uniforms, bgPc,
               bgSampler, bgVisited, bgCommands, plVisited, plCommands,
               specialized, queued, issued, samplersCreated,
               bindGroupsCreated, bindGroups, pipelineIds, prevBindGroups>>
vars == <<exVars, frameVars>>

NoComponents == [v \in Views |-> None]

FrameInit ==
    /\ frame = 0
    /\ pc = "begin"
    /\ camera = [v \in Views |-> CameraA]
    /\ fogTexture = NoComponents
    /\ extracted = [v \in Views |-> NotRun]
    /\ uniforms = [entries |-> {}, buffer |-> FALSE, frame |-> 0]
    /\ bgPc = "start"
    /\ bgSampler = None
    /\ bgVisited = {}
    /\ bgCommands = NoComponents
    /\ plVisited = {}
    /\ plCommands = NoComponents
    /\ specialized = {}
    /\ queued = << >>
    /\ issued = {}
    /\ samplersCreated = 0
    /\ bindGroupsCreated = 0
    /\ bindGroups = NoComponents
    /\ pipelineIds = NoComponents
    /\ prevBindGroups = NoComponents

\* ------------------------------------------------ SpecExtract
ExtractInit ==
    /\ exFog \in FogSettingsSet
    /\ exCamera \in CameraSet
    /\ exResult = NotRun
    /\ exCalls = 0
    /\ FrameInit

\* One call of extract_component on the view's (VolumetricFog, Camera).
ExtractCall ==
    /\ exCalls < 2
    /\ exResult' = extract_component(exFog, exCamera)
    /\ exCalls' = exCalls + 1
    /\ UNCHANGED <<exFog, exCamera, frameVars>>

ExtractNext == ExtractCall

SpecExtract == ExtractInit /\ [][ExtractNext]_vars

\* ------------------------------------------------ resources and handles
\* #[derive(PartialEq, Eq, Hash, Clone)] struct FogUpsamplingPipelineKeys {}:
\* a key with no fields, hence a single value.
FogUpsamplingPipelineKeys == [fields |-> << >>]

\* Mutant: a key that carries the view it is requested for.
ViewPipelineKeyPerView(v) == [fields |-> <<v>>]

\* The key prepare_upsampling_pipeline passes for a view: the unit key,
\* whatever the entity and its fog settings.
ViewPipelineKey(v) == FogUpsamplingPipelineKeys

\* Mutant: BlendState::REPLACE, the fragment overwrites the target.
UpsamplingBlendStateReplace ==
    [ color |-> [src_factor |-> "One", dst_factor |-> "Zero", operation |-> "Add"],
      alpha |-> [src_factor |-> "One", dst_factor |-> "Zero", operation |-> "Add"] ]

\* The BlendState of the color target: additive.
UpsamplingBlendState ==
    [ color |-> [src_factor |-> "Constant", dst_factor |-> "One", operation |-> "Add"],
      alpha |-> [src_factor |-> "Zero", dst_factor |-> "One", operation |-> "Add"] ]

\* UpsamplingPipeline::specialize(key): the descriptor built for a key.
specialize(key) ==
    [ label |-> "fog_upsampling_pipeline",
      layout |-> <<"fog_upsampling_bind_group_layout">>,
      vertex |-> "fullscreen_shader_vertex_state",
      fragment |-> Some(
        [ shader |-> "FOG_UPSCALING_SHADER_HANDLE",
          shader_defs |-> << >>,
          entry_point |-> "upsample",
          targets |-> << Some(
            [ format |-> "FOG_TEXTURE_FORMAT",
              blend |-> Some(UpsamplingBlendState),
              write_mask |-> "ALL" ]) >> ]),
      primitive |-> "default",
      depth_stencil |-> None,
      multisample |-> "default",
      push_constant_ranges |-> << >>,
      zero_initialize_workgroup_memory |-> FALSE ]

\* PipelineCache::queue_render_pipeline: appends the pipeline (stamped with
\* the frame of the build) and returns its index as the CachedRenderPipelineId.
QueueRenderPipeline(queue, key) ==
    [id |-> Len(queue) + 1,
     queue |-> Append(queue, [key |-> key, descriptor |-> specialize(key),
                              frame |-> frame])]

CachedIds(cache, key) == {e.id : e \in {c \in cache : c.key = key}}

\* SpecializedRenderPipelines::specialize: get-or-build, memoized by key.
SpecializedSpecialize(cache, queue, key) ==
    IF CachedIds(cache, key) # {}
    THEN [id |-> CHOOSE i \in CachedIds(cache, key) : TRUE,
          cache |-> cache, queue |-> queue]
    ELSE LET q == QueueRenderPipeline(queue, key)
         IN  [id |-> q.id, cache |-> cache \cup {[key |-> key, id |-> q.id]},
              queue |-> q.queue]

\* Mutant: the pipeline is queued on every request, past the memoizing cache.
RequestPipelineUncached(cache, queue, key) ==
    LET q == QueueRenderPipeline(queue, key)
    IN  [id |-> q.id, cache |-> cache, queue |-> q.queue]

\* pipelines.specialize(&pipeline_cache, &pipeline, key) in
\* prepare_upsampling_pipeline.
RequestPipeline(cache, queue, key) == SpecializedSpecialize(cache, queue, key)

\* ComponentUniforms::binding(): the binding of the aggregated buffer, one
\* for all views; resolved once the buffer exists.
UniformsBinding ==
    IF uniforms.buffer THEN Some([buffer |-> "ComponentUniforms<UpsamplingUniforms>"])
    ELSE None

\* volumetric_fog_texture.view(): the texture view of the view's fog buffer.
TextureView(t) == [texture_view |-> t]

\* UpsamplingPipeline::from_world: BindGroupLayoutEntries::sequential(FRAGMENT,
\* (texture_2d, sampler, uniform_buffer)).
BindGroupLayout ==
    << [binding |-> 0, visibility |-> "FRAGMENT", ty |-> "texture_2d"],
       [binding |-> 1, visibility |-> "FRAGMENT", ty |-> "sampler"],
       [binding |-> 2, visibility |-> "FRAGMENT", ty |-> "uniform_buffer"] >>

\* Mutant: a sampler kept from the first frame instead of a new one.
CreateSamplerCached(f, n) == [frame |-> 1, n |-> 1, min_filter |-> "Linear",
                              mag_filter |-> "Linear", address_mode_u |-> "ClampToEdge",
                              address_mode_v |-> "ClampToEdge"]

\* render_device.create_sampler(&SamplerDescriptor {..}): the n-th sampler
\* created in frame f.
CreateSampler(f, n) == [frame |-> f, n |-> n, min_filter |-> "Linear",
                        mag_filter |-> "Linear", address_mode_u |-> "ClampToEdge",
                        address_mode_v |-> "ClampToEdge"]

\* Mutant: the sampler and the texture view are passed in the wrong order.
BindGroupEntriesSwapped(a, b, c) ==
    << [binding |-> 0, resource |-> b],
       [binding |-> 1, resource |-> a],
       [binding |-> 2, resource |-> c] >>

\* BindGroupEntries::sequential((a, b, c)): bindings 0, 1, 2 in that order.
BindGroupEntriesSequential(a, b, c) ==
    << [binding |-> 0, resource |-> a],
       [binding |-> 1, resource |-> b],
       [binding |-> 2, resource |-> c] >>

\* Mutant: a bind group object kept from the first frame is handed out again.
CreateBindGroupCached(f, n, entries) ==
    [frame |-> 1, n |-> n, label |-> "bloom_upsampling_bind_group",
     layout |-> "fog_upsampling_bind_group_layout", entries |-> entries]

\* render_device.create_bind_group(label, layout, entries): the n-th bind
\* group created in frame f.
CreateBindGroup(f, n, entries) ==
    [frame |-> f, n |-> n, label |-> "bloom_upsampling_bind_group",
     layout |-> "fog_upsampling_bind_group_layout", entries |-> entries]

\* struct UpsamplingBindGroup { upsampling_bind_group, sampler }
UpsamplingBindGroup(bg, s) == [upsampling_bind_group |-> bg, sampler |-> s]

\* struct UpsamplingPipelineIds { id_final }
UpsamplingPipelineIds(id) == [id_final |-> id]

\* Views matched by Query<(Entity, &VolumetricFogTexture)>.
TextureViews == {v \in Views : fogTexture[v].is_some}

\* Views matched by Query<(Entity, &VolumetricFog)> in the render world: the
\* views whose extraction returned Some.
FogViews == {v \in Views : extracted[v].kind = "Some"}

BindGroupsDone == bgPc = "loop" /\ bgVisited = TextureViews
PipelinesDone == plVisited = FogViews

\* ------------------------------------------------------------ frame loop
\* The camera states the views of a frame may have.
FrameCameraMaps == [Views -> FrameCameras]

\* For the history of a view's bind groups: view 1 stays eligible (so the
\* uniform buffer exists), the other views are inactive; the textures vary.
HistoryCameraMaps == {[v \in Views |-> IF v = 1 THEN CameraA ELSE CameraB]}

\* The engine starts a frame: the cameras and the fog pass's textures are the
\* frame's inputs; the previous frame's per-view records are discarded.
StartFrame(cameraMaps) ==
    /\ pc = "begin"
    /\ frame < MaxFrames
    /\ frame' = frame + 1
    /\ camera' \in cameraMaps
    /\ fogTexture' \in [Views -> {None} \cup {Some(t) : t \in TextureHandles}]
    /\ extracted' = [v \in Views |-> NotRun]
    /\ bgPc' = "start"
    /\ bgSampler' = None
    /\ bgVisited' = {}
    /\ bgCommands' = NoComponents
    /\ plVisited' = {}
    /\ plCommands' = NoComponents
    /\ samplersCreated' = 0
    /\ bindGroupsCreated' = 0
    /\ bindGroups' = NoComponents
    /\ pipelineIds' = NoComponents
    /\ pc' = "extract"
    /\ UNCHANGED <<uniforms, specialized, queued, issued, exVars>>

BeginFrame == StartFrame(FrameCameraMaps) /\ UNCHANGED prevBindGroups

\* The same, remembering the records the ending frame exposed.
BeginFrameTracked == StartFrame(HistoryCameraMaps) /\ prevBindGroups' = bindGroups

\* The extraction stage: extract_component on every view.
ExtractComponents ==
    /\ pc = "extract"
    /\ LET res == [v \in Views |-> extract_component(ViewFog(v), camera[v])]
       IN  IF \E v \in Views : res[v].kind = "Panic"
           THEN pc' = "panicked" /\ UNCHANGED extracted
           ELSE pc' = "upload" /\ extracted' = res
    /\ UNCHANGED <<frame, camera, fogTexture, uniforms, bgPc, bgSampler,
                   bgVisited, bgCommands, plVisited, plCommands, specialized,
                   queued, issued, samplersCreated, bindGroupsCreated,
                   bindGroups, pipelineIds, exVars, prevBindGroups>>

\* The uniform aggregator writes this frame's UpsamplingUniforms into its
\* buffer, one entry per extracted view.
PrepareUniformComponents ==
    /\ pc = "upload"
    /\ uniforms' = [entries |-> FogViews,
                    buffer |-> uniforms.buffer \/ FogViews # {},
                    frame |-> frame]
    /\ pc' = "prepare"
    /\ UNCHANGED <<frame, camera, fogTexture, extracted, bgPc, bgSampler,
                   bgVisited, bgCommands, plVisited, plCommands, specialized,
                   queued, issued, samplersCreated, bindGroupsCreated,
                   bindGroups, pipelineIds, exVars, prevBindGroups>>

\* Mutant: the uniform binding is unwrapped before the loop.
BindGroupsCreateSamplerUnwrapFirst ==
    /\ pc = "prepare"
    /\ bgPc = "start"
    /\ IF ~UniformsBinding.is_some
       THEN pc' = "panicked" /\ UNCHANGED <<bgSampler, samplersCreated, bgPc>>
       ELSE /\ bgSampler' = Some(CreateSampler(frame, samplersCreated + 1))
            /\ samplersCreated' = samplersCreated + 1
            /\ bgPc' = "loop"
            /\ pc' = pc
    /\ UNCHANGED <<frame, camera, fogTexture, extracted, uniforms,
                   bgVisited, bgCommands, plVisited, plCommands, specialized,
                   queued, issued, bindGroupsCreated, bindGroups, pipelineIds,
                   exVars, prevBindGroups>>

\* prepare_upsampling_bind_groups, up to the loop: the sampler.
BindGroupsCreateSampler ==
    /\ pc = "prepare"
    /\ bgPc = "start"
    /\ bgSampler' = Some(CreateSampler(frame, samplersCreated + 1))
    /\ samplersCreated' = samplersCreated + 1
    /\ bgPc' = "loop"
    /\ UNCHANGED <<frame, pc, camera, fogTexture, extracted, uniforms,
                   bgVisited, bgCommands, plVisited, plCommands, specialized,
                   queued, issued, bindGroupsCreated, bindGroups, pipelineIds,
                   exVars, prevBindGroups>>

\* prepare_upsampling_bind_groups, one iteration of `for (entity, texture)`.
BindGroupsStep(v) ==
    /\ pc = "prepare"
    /\ bgPc = "loop"
    /\ v \in TextureViews \ bgVisited
    /\ IF ~UniformsBinding.is_some
       THEN \* uniforms.binding().unwrap() panics: the system's commands are lost
            /\ pc' = "panicked"
            /\ bgCommands' = NoComponents
            /\ UNCHANGED <<bgVisited, bindGroupsCreated>>
       ELSE LET sampler == bgSampler.value
                bg == CreateBindGroup(frame, bindGroupsCreated + 1,
                         BindGroupEntriesSequential(TextureView(fogTexture[v].value), sampler,
                                                    UniformsBinding.value))
            IN  /\ bgCommands' = [bgCommands EXCEPT
                                    ![v] = Some(UpsamplingBindGroup(bg, sampler))]
                /\ bgVisited' = bgVisited \cup {v}
                /\ bindGroupsCreated' = bindGroupsCreated + 1
                /\ pc' = pc
    /\ UNCHANGED <<frame, camera, fogTexture, extracted, uniforms, bgPc,
                   bgSampler, plVisited, plCommands, specialized, queued,
                   issued, samplersCreated, bindGroups, pipelineIds, exVars, prevBindGroups>>

\* prepare_upsampling_pipeline, one iteration of `for (entity, fog)`.
PipelineStep(v) ==
    /\ pc = "prepare"
    /\ v \in FogViews \ plVisited
    /\ LET r == RequestPipeline(specialized, queued, ViewPipelineKey(v))
       IN  /\ specialized' = r.cache
           /\ queued' = r.queue
           /\ issued' = issued \cup {[key |-> ViewPipelineKey(v), id |-> r.id]}
           /\ plCommands' = [plCommands EXCEPT
                               ![v] = Some(UpsamplingPipelineIds(r.id))]
    /\ plVisited' = plVisited \cup {v}
    /\ UNCHANGED <<frame, pc, camera, fogTexture, extracted, uniforms, bgPc,
                   bgSampler, bgVisited, bgCommands, samplersCreated,
                   bindGroupsCreated, bindGroups, pipelineIds, exVars, prevBindGroups>>

\* Mutant: the commands are applied and the draw stage entered as soon as the
\* bind-group system has returned, without waiting for the pipeline system.
ApplyDeferredEarly ==
    /\ pc = "prepare"
    /\ BindGroupsDone
    /\ bindGroups' = [v \in Views |->
                        IF bgCommands[v].is_some THEN bgCommands[v] ELSE bindGroups[v]]
    /\ pipelineIds' = [v \in Views |->
                        IF plCommands[v].is_some THEN plCommands[v] ELSE pipelineIds[v]]
    /\ pc' = "draw"
    /\ UNCHANGED <<frame, camera, fogTexture, extracted, uniforms, bgPc,
                   bgSampler, bgVisited, bgCommands, plVisited, plCommands,
                   specialized, queued, issued, samplersCreated,
                   bindGroupsCreated, exVars, prevBindGroups>>

\* Both systems have returned: their deferred commands are applied, each
\* insert overwriting the component of its entity.
ApplyDeferred ==
    /\ pc = "prepare"
    /\ BindGroupsDone
    /\ PipelinesDone
    /\ bindGroups' = [v \in Views |->
                        IF bgCommands[v].is_some THEN bgCommands[v] ELSE bindGroups[v]]
    /\ pipelineIds' = [v \in Views |->
                        IF plCommands[v].is_some THEN plCommands[v] ELSE pipelineIds[v]]
    /\ pc' = "draw"
    /\ UNCHANGED <<frame, camera, fogTexture, extracted, uniforms, bgPc,
                   bgSampler, bgVisited, bgCommands, plVisited, plCommands,
                   specialized, queued, issued, samplersCreated,
                   bindGroupsCreated, exVars, prevBindGroups>>

\* The draw executor consumes the frame's records; the frame ends.
Draw ==
    /\ pc = "draw"
    /\ pc' = "begin"
    /\ UNCHANGED <<frame, camera, fogTexture, extracted, uniforms, bgPc,
                   bgSampler, bgVisited, bgCommands, plVisited, plCommands,
                   specialized, queued, issued, samplersCreated,
                   bindGroupsCreated, bindGroups, pipelineIds, exVars, prevBindGroups>>

Init ==
    /\ exFog = "fog_a"
    /\ exCamera = CameraA
    /\ exResult = NotRun
    /\ exCalls = 0
    /\ FrameInit

Next ==
    \/ BeginFrame
    \/ ExtractComponents
    \/ PrepareUniformComponents
    \/ BindGroupsCreateSampler
    \/ \E v \in Views : BindGroupsStep(v)
    \/ \E v \in Views : PipelineStep(v)
    \/ ApplyDeferred
    \/ Draw

Spec == Init /\ [][Next]_vars

\* The frame loop with the previous frame's records remembered.
NextHistory ==
    \/ BeginFrameTracked
    \/ ExtractComponents
    \/ PrepareUniformComponents
    \/ BindGroupsCreateSampler
    \/ \E v \in Views : BindGroupsStep(v)
    \/ \E v \in Views : PipelineStep(v)
    \/ ApplyDeferred
    \/ Draw

SpecHistory == Init /\ [][NextHistory]_vars

\* ------------------------------------------------------------ properties
\* Indices of the pipelines built for key k.
BuildsOf(k) == {i \in 1..Len(queued) : queued[i].key = k}

\* The eligibility condition as the specification words it.
StatedEligible(c) ==
    /\ c.rect.is_some
    /\ c.size.is_some /\ c.size.value.x > 0 /\ c.size.value.y > 0
    /\ c.target.is_some
    /\ c.is_active
    /\ c.hdr

\* C1: extract_component returns Some if and only if the viewport rectangle
\* is present, the viewport size is present with both dimensions > 0, the
\* target size is present, active and hdr are true; otherwise it returns None.
C1_ExtractSomeIffEligible ==
    exResult # NotRun =>
        IF StatedEligible(exCamera)
        THEN exResult.kind = "Some"
        ELSE exResult.kind = "None"

C1_Witness ==
    /\ exResult.kind = "Some"
    /\ exCamera.size.value = [x |-> MaxDim, y |-> 1]

\* C2 (as claimed): at the end of a frame's preparation a view holds an
\* UpsamplingBindGroup if and only if extract_component returned Some for it
\* in that frame.
C2_BindGroupIffEligible ==
    pc = "draw" =>
        \A v \in Views : bindGroups[v].is_some <=> (extracted[v].kind = "Some")

\* C3 (as claimed): when bind-group building runs for a view that has no
\* entry in the uniform aggregator, preparation aborts and no bind group is
\* produced for that view.
C3_MissingEntryIsFatal ==
    pc \in {"prepare", "draw"} =>
        \A v \in Views \ uniforms.entries :
            ~bgCommands[v].is_some /\ ~bindGroups[v].is_some

\* C4: every specialize request with the same key returns the same handle,
\* across views and frames; all views that receive a pipeline handle
\* receive the identical one.
C4_SpecializeMemoized ==
    /\ \A p, q \in issued : p.id = q.id
    /\ \A v \in Views :
          /\ plCommands[v].is_some =>
                \A p \in issued : plCommands[v].value.id_final = p.id
          /\ pipelineIds[v].is_some =>
                \A p \in issued : pipelineIds[v].value.id_final = p.id

C4_Witness ==
    /\ Len(queued) = 1 /\ queued[1].frame < frame
    /\ Cardinality({v \in Views : plCommands[v].is_some}) >= 2
    /\ issued # {}

\* C5: at most one pipeline build is performed per distinct key, however
\* many views and frames request it.
C5_BuildOnce ==
    \A i, j \in 1..Len(queued) : queued[i].key = queued[j].key => i = j

C5_Witness ==
    /\ Len(queued) = 1
    /\ queued[1].frame = 1
    /\ frame = MaxFrames
    /\ pc = "draw"
    /\ \A v \in Views : pipelineIds[v].is_some

\* C6: whatever the order in which the views' get-or-build requests reach
\* the cache, exactly one build occurs for the key and every requester
\* obtains the handle of that build.
C6_RequestsSerialized ==
    \A v \in Views :
        plCommands[v].is_some =>
            /\ Cardinality(BuildsOf(FogUpsamplingPipelineKeys)) = 1
            /\ plCommands[v].value.id_final \in BuildsOf(FogUpsamplingPipelineKeys)

C6_Witness ==
    /\ frame = 1
    /\ pc = "prepare"
    /\ bgPc = "loop"
    /\ bgVisited # {}
    /\ ~BindGroupsDone
    /\ Cardinality({v \in Views : plCommands[v].is_some}) >= 2

C8_NoneYieldsNothing ==
    \A v \in Views :
        extracted[v].kind = "None" =>
            /\ ~bgCommands[v].is_some /\ ~bindGroups[v].is_some
            /\ ~plCommands[v].is_some /\ ~pipelineIds[v].is_some

\* C9 (as claimed): after preparation every view carrying VolumetricFog has
\* a pipeline handle and a bind group, and no view has one without the other.
C9_RecordsComplete ==
    pc = "draw" =>
        \A v \in Views :
            /\ extracted[v].kind = "Some" =>
                  pipelineIds[v].is_some /\ bindGroups[v].is_some
            /\ pipelineIds[v].is_some <=> bindGroups[v].is_some

\* An UpsamplingBindGroup record built in the current frame around the
\* system's one sampler.
SharesFrameSampler(r) ==
    /\ r.sampler = bgSampler.value
    /\ r.upsampling_bind_group.entries[2].resource = bgSampler.value
    /\ r.upsampling_bind_group.frame = frame
    /\ r.sampler.frame = r.upsampling_bind_group.frame

\* C10: the sampler is created exactly once per frame however many views
\* there are, every bind group built in the frame references that sampler,
\* and no bind group references a sampler created in an earlier frame.
C10_SamplerShared ==
    /\ samplersCreated <= 1
    /\ bgPc = "loop" => samplersCreated = 1 /\ bgSampler.is_some
    /\ \A v \in Views :
          /\ bgCommands[v].is_some => SharesFrameSampler(bgCommands[v].value)
          /\ bindGroups[v].is_some => SharesFrameSampler(bindGroups[v].value)

C10_Witness ==
    /\ frame = MaxFrames
    /\ pc = "draw"
    /\ Cardinality({v \in Views : bindGroups[v].is_some}) >= 2

\* |m * y - x * 2^e|: the distance of the f32 value [m, e] from x / y, in
\* units of 2^(-e) / y.
RatioError(a, x, y) ==
    IF a.m * y >= x * Pow2(a.e) THEN a.m * y - x * Pow2(a.e)
    ELSE x * Pow2(a.e) - a.m * y

\* C12 (as claimed): for every eligible view the returned aspect is exactly
\* the ratio size.x / size.y of the viewport's pixel dimensions.
C12_AspectExactRatio ==
    exResult.kind = "Some" =>
        RatioError(exResult.uniform.aspect, exCamera.size.value.x,
                   exCamera.size.value.y) = 0

\* C12 (amended): for every eligible view the returned aspect is the f32
\* quotient of the viewport's size.x and size.y: a normalized f32 within a
\* relative 1e-6 of size.x / size.y (exact only when the ratio is
\* representable), computed from the viewport size and not the target size.
C12_AspectWithinTolerance ==
    exResult.kind = "Some" =>
        LET a == exResult.uniform.aspect
            x == exCamera.size.value.x
            y == exCamera.size.value.y
        IN  /\ Pow2(F32Bits - 1) <= a.m /\ a.m < Pow2(F32Bits)
            /\ RatioError(a, x, y) <= (x * Pow2(a.e)) \div 1000000
            /\ 2 * RatioError(a, x, y) <= y

C12_Witness ==
    /\ exResult.kind = "Some"
    /\ exCamera.size.value = [x |-> 2, y |-> 3]
    /\ RatioError(exResult.uniform.aspect, 2, 3) # 0

\* C13: the expect on the aspect computation is never hit: extract_component
\* never aborts, and a view with a zero width or height yields None.
C13_AspectNeverPanics ==
    exResult # NotRun =>
        /\ exResult.kind # "Panic"
        /\ (exCamera.size.is_some /\ (exCamera.size.value.x = 0
                                      \/ exCamera.size.value.y = 0))
              => exResult.kind = "None"

C13_Witness ==
    /\ exResult.kind = "None"
    /\ ArmMatches(exCamera)
    /\ exCamera.size.value = [x |-> 0, y |-> MaxDim]

RecordsOf(v) ==
    {r.value : r \in {c \in {bgCommands[v], bindGroups[v]} : c.is_some}}

\* C11: the bind group a view holds after a frame's preparation was built
\* in that frame around the fog texture the view had then; it is a
\* different object from the one the previous frame exposed, so a bind group
\* built for an earlier texture is never exposed for a later frame.
C11_BindGroupFresh ==
    pc = "draw" =>
        \A v \in Views :
            bindGroups[v].is_some =>
                LET bg == bindGroups[v].value.upsampling_bind_group
                IN  /\ bg.frame = frame
                    /\ fogTexture[v].is_some
                    /\ bg.entries[1].resource = TextureView(fogTexture[v].value)
                    /\ prevBindGroups[v].is_some =>
                          bg # prevBindGroups[v].value.upsampling_bind_group

C11_Witness ==
    /\ pc = "draw"
    /\ \E v \in Views :
          /\ bindGroups[v].is_some
          /\ prevBindGroups[v].is_some
          /\ prevBindGroups[v].value.upsampling_bind_group.entries[1].resource
                # TextureView(fogTexture[v].value)

\* C14: every pipeline descriptor built by specialize has fragment entry
\* point "upsample", exactly one color target in the fog texture format with
\* additive blending (color Constant/One/Add, alpha Zero/One/Add), no
\* depth/stencil attachment and no push-constant ranges.
C14_DescriptorShape ==
    \A i \in 1..Len(queued) :
        LET d == queued[i].descriptor
        IN  /\ d.fragment.is_some
            /\ d.fragment.value.entry_point = "upsample"
            /\ Len(d.fragment.value.targets) = 1
            /\ d.fragment.value.targets[1].is_some
            /\ d.fragment.value.targets[1].value.format = "FOG_TEXTURE_FORMAT"
            /\ d.fragment.value.targets[1].value.blend =
                  Some([ color |-> [src_factor |-> "Constant", dst_factor |-> "One",
                                    operation |-> "Add"],
                         alpha |-> [src_factor |-> "Zero", dst_factor |-> "One",
                                    operation |-> "Add"] ])
            /\ d.depth_stencil = None
            /\ d.push_constant_ranges = << >>

C14_Witness ==
    /\ Len(queued) = 1
    /\ queued[1].key = FogUpsamplingPipelineKeys

\* C15: at the end of a frame's preparation the per-view records (presence
\* of a bind group, the texture and sampler it references, the pipeline
\* handle) are determined by the frame's inputs alone, whatever the order in
\* which the views were iterated and the two systems interleaved.
C15_OrderIndependent ==
    pc = "draw" =>
        \A v \in Views :
            /\ bindGroups[v].is_some = fogTexture[v].is_some
            /\ bindGroups[v].is_some =>
                  LET r == bindGroups[v].value
                  IN  /\ r.upsampling_bind_group.entries[1].resource
                            = TextureView(fogTexture[v].value)
                      /\ r.upsampling_bind_group.entries[2].resource
                            = CreateSampler(frame, 1)
                      /\ r.sampler = CreateSampler(frame, 1)
            /\ pipelineIds[v].is_some = (extracted[v].kind = "Some")
            /\ pipelineIds[v].is_some =>
                  {pipelineIds[v].value.id_final} = BuildsOf(FogUpsamplingPipelineKeys)

\* Both systems have iterated two views, view 1 second in the bind-group loop.
C15_Witness ==
    /\ pc = "draw"
    /\ Cardinality(plVisited) >= 2
    /\ bindGroups[1].is_some
    /\ bindGroups[1].value.upsampling_bind_group.n = 2

\* C17: in a frame in which no view carries a fog texture,
\* prepare_upsampling_bind_groups never enters the fatal path, even with the
\* uniform binding unresolved; it creates its one sampler and no bind group.
C17_NoTextureNoPanic ==
    (frame >= 1 /\ TextureViews = {}) =>
        /\ pc # "panicked"
        /\ bindGroupsCreated = 0
        /\ \A v \in Views : RecordsOf(v) = {}
        /\ pc = "draw" => samplersCreated = 1 /\ bgSampler.is_some

C17_Witness ==
    /\ pc = "draw"
    /\ TextureViews = {}
    /\ ~UniformsBinding.is_some
    /\ samplersCreated = 1

\* The binding type a resource of a bind-group entry satisfies.
ResourceType(r) ==
    IF "texture_view" \in DOMAIN r THEN "texture_2d"
    ELSE IF "min_filter" \in DOMAIN r THEN "sampler"
    ELSE "uniform_buffer"

\* C18: in every record the sampler field is the sampler bound at binding 1
\* of the record's bind group, and the entries follow the layout: binding 0
\* the fog texture, binding 1 the sampler, binding 2 the uniform buffer.
C18_RecordConsistent ==
    \A v \in Views :
        \A r \in RecordsOf(v) :
            LET entries == r.upsampling_bind_group.entries
            IN  /\ Len(entries) = Len(BindGroupLayout)
                /\ \A i \in 1..Len(entries) :
                      /\ entries[i].binding = BindGroupLayout[i].binding
                      /\ ResourceType(entries[i].resource) = BindGroupLayout[i].ty
                /\ \A i \in 1..Len(entries) :
                      entries[i].binding = 1 => entries[i].resource = r.sampler

C18_Witness ==
    /\ pc = "draw"
    /\ frame = MaxFrames
    /\ \A v \in Views : bindGroups[v].is_some

====
